---- MODULE Spec2Model ----
(***************************************************************************)
(* Model of src/src/server.ts: the POST /api/download handler, its         *)
(* detached background chain of five download strategies, and the files    *)
(* the chain leaves in DOWNLOAD_DIR.                                       *)
(*                                                                         *)
(* One step of the model is one turn of the Node event loop: the           *)
(* synchronous code that runs from the delivery of an event (a request, a  *)
(* promise settling, a stream or child-process event) up to the next       *)
(* await.  All requests are for the same video, so that they share one     *)
(* output path.                                                            *)
(***************************************************************************)
EXTENDS Integers, Sequences, FiniteSets, TLC

\* ---------------------------------------------------------------- bounds
MaxChunks == 1      \* chunks a transport delivers before it ends
MaxSegLen == 13     \* characters of the identifier segment of a tested url
MaxTitleLen == 4    \* characters of a title given to the sanitisation on its own
MaxApplied == 2     \* times the sanitisation is applied in a row

\* The requests in flight: two, so that two background chains can overlap.
Runs == {1, 2}

\* ---------------------------------------------------------------- inputs
\* req.body.url: absent, a string extractVideoId does not match, a watch URL.
Urls == {"missing", "not-a-url", "watch"}

\* The files of the one output target inside DOWNLOAD_DIR:
\*   mp4   <safeTitle>-<id>.mp4        (outputPath)
\*   temp  <safeTitle>-<id>.mp4.temp   (tempFilePath of method 3)
\*   mp3   <safeTitle>-<id>.mp3        (audioPath of method 5)
\*   note  NOTE-<safeTitle>-<id>.txt
\*   error ERROR-<safeTitle>-<id>.txt
\*   part  <safeTitle>-<id>.mp4.part   (the working file of the yt-dlp process,
\*                                      which is given outputPath as --output)
Files == {"mp4", "temp", "mp3", "note", "error", "part"}

\* A file is absent, or present with a sequence of chunks; a chunk is the
\* number of the run that wrote it, 0 is a hole left by a write past the end.
Absent == [present |-> FALSE, data |-> <<>>]
Empty == [present |-> TRUE, data |-> <<>>]
File(d) == [present |-> TRUE, data |-> d]

VARIABLES
  alive,      \* the Node process is running (FALSE after an uncaught exception)
  apiKey,     \* process.env.YOUTUBE_API_KEY is set
  ytDlp,      \* the yt-dlp executable is installed
  cookies,    \* COOKIES_FILE exists
  fs,         \* DOWNLOAD_DIR: file name -> content
  pc,         \* per request: where its handler / background chain stands
  hasCookies, \* per request: the handler's local hasCookies
  hasYtDlp,   \* per request: the handler's local hasYtDlp
  tgt,        \* per request: the file its open write stream refers to
  off,        \* per request: the position of its open write stream
  log,        \* per request: responses sent, strategies invoked, marker written, in order
  res,        \* per request: what each strategy's promise did
  okFile,     \* per request: the strategy's target file when it resolved true
  stuck,      \* per request: the event that left a strategy's promise unsettled
  status,     \* the response to GET /api/status sent in the step just taken
  tested,     \* the url given to extractVideoId on its own, in its three parts
  token,      \* what extractVideoId returned for it
  title,      \* the title given to the sanitisation of lines 614-616 on its own
  applied     \* the results of applying the sanitisation to it, again and again

vars == <<alive, apiKey, ytDlp, cookies, fs, pc, hasCookies, hasYtDlp, tgt, off,
          log, res, okFile, stuck, status, tested, token, title, applied>>

\* No status response has just been sent.
NoStatus == [code |-> 0]

\* ---------------------------------------------------------------- history
\* An entry of log: "resp" with the HTTP status, "inv" or "skip" with the
\* number of the strategy, "marker" for the error file.
Ev(e, s) == [e |-> e, s |-> s]

Responded(r, code) == \E k \in 1..Len(log[r]) : log[r][k] = Ev("resp", code)
Count(r, e) == Cardinality({k \in 1..Len(log[r]) : log[r][k].e = e})
\* the strategies invoked, in the order of invocation
Calls(r) == LET inv == SelectSeq(log[r], LAMBDA x : x.e = "inv")
            IN [k \in 1..Len(inv) |-> inv[k].s]

Strategies == 1..5

\* fs.existsSync(p) && fs.statSync(p).size, as the three cases the code tells apart
FileStatus(f) == IF ~f.present THEN "absent" ELSE IF Len(f.data) = 0 THEN "empty" ELSE "data"

\* ---------------------------------------------------------------- state passing
\* The part of the state one event-loop turn of request r reads and writes.
Here == [fs |-> fs, pc |-> pc, tgt |-> tgt, off |-> off, log |-> log, res |-> res,
         okFile |-> okFile, stuck |-> stuck, alive |-> alive]

Assign(st) ==
  /\ fs' = st.fs
  /\ pc' = st.pc
  /\ tgt' = st.tgt
  /\ off' = st.off
  /\ log' = st.log
  /\ res' = st.res
  /\ okFile' = st.okFile
  /\ stuck' = st.stuck
  /\ alive' = st.alive

\* The end of a turn of a handler other than the status handler.
Commit(st) == Assign(st) /\ status' = NoStatus

Log(r, ev, st) == [st EXCEPT !.log[r] = Append(@, ev)]

\* Strategy i is called: recorded, and its promise is pending.
Call(r, i, st) == [Log(r, Ev("inv", i), st) EXCEPT !.res[r][i] = "pending"]

\* fs.createWriteStream(path): creates the file or truncates it, and gives
\* request r a stream positioned at 0.
createWriteStream(r, path, st) ==
  [st EXCEPT !.fs[path] = Empty, !.tgt[r] = path, !.off[r] = 0]

\* One chunk written through r's stream: at the stream's own position, into
\* the file the stream was opened on (nothing visible if that file has been
\* replaced under its name).
Pad(d, n) == [k \in 1..n |-> IF k <= Len(d) THEN d[k] ELSE 0]
WriteAt(d, p, v) == [Pad(d, IF p > Len(d) THEN p ELSE Len(d)) EXCEPT ![p] = v]
write(r, st) ==
  LET t == st.tgt[r]
      s1 == [st EXCEPT !.off[r] = @ + 1]
  IN IF t \in Files
       THEN [s1 EXCEPT !.fs[t] = File(WriteAt(st.fs[t].data, st.off[r] + 1, r))]
       ELSE s1

\* fs.renameSync(from, to) of an existing file: the name `to` now holds the
\* file, the name `from` is gone; streams open on the file follow it, streams
\* open on the file that was at `to` are detached from the directory.
renameSync(from, to, st) ==
  [st EXCEPT !.fs[to] = st.fs[from],
             !.fs[from] = Absent,
             !.tgt = [q \in Runs |-> IF st.tgt[q] = from THEN to
                                     ELSE IF st.tgt[q] = to THEN "orphan"
                                     ELSE st.tgt[q]]]

\* An exception thrown inside an event listener: nothing catches it, the
\* process ends.
uncaughtException(r, what, st) ==
  [st EXCEPT !.stuck[r] = what, !.alive = FALSE]

\* An event after which nothing settles the strategy's promise.
neverSettles(r, what, st) ==
  [st EXCEPT !.stuck[r] = what, !.pc[r] = "hung"]

\* ---------------------------------------------------------------- strategies 2..5, up to their first await
\* Method 2, lines 230-262: opens the write stream on outputPath, starts ytdl.
downloadWithEnhancedYtdl(r, st) ==
  [createWriteStream(r, "mp4", Call(r, 2, st)) EXCEPT !.pc[r] = "s2stream"]

\* Method 3, lines 306-319: awaits ytdl.getInfo.
downloadWithProxyFetch(r, st) ==
  [Call(r, 3, st) EXCEPT !.pc[r] = "s3info"]

\* Method 4, lines 416-430: awaits the GET of the embed page.
downloadWithEmbedURL(r, st) ==
  [Call(r, 4, st) EXCEPT !.pc[r] = "s4embed"]

\* Method 5, lines 501-538: opens the write stream on audioPath, starts ytdl.
downloadAsAudioOnly(r, st) ==
  [createWriteStream(r, "mp3", Call(r, 5, st)) EXCEPT !.pc[r] = "s5stream"]

\* ---------------------------------------------------------------- the background chain
\* Lines 712-734: all methods failed; the error file is written.
writeErrorFile(r, st) ==
  [Log(r, Ev("marker", 0), st) EXCEPT !.fs["error"] = File(<<r>>), !.pc[r] = "allfailed"]

\* Mutants of background: the chain goes on after a success; the chain jumps
\* from method 2 to method 4; the error file is written after a success too.
background_goesOnAfterSuccess(r, i, success, st) ==
  CASE i = 1 -> downloadWithEnhancedYtdl(r, st)
    [] i = 2 -> downloadWithProxyFetch(r, st)
    [] i = 3 -> downloadWithEmbedURL(r, st)
    [] i = 4 -> downloadAsAudioOnly(r, st)
    [] OTHER -> IF success THEN [st EXCEPT !.pc[r] = "succeeded"] ELSE writeErrorFile(r, st)

background_skipsMethod3(r, i, success, st) ==
  IF success
    THEN [st EXCEPT !.pc[r] = "succeeded"]
    ELSE CASE i = 1 -> downloadWithEnhancedYtdl(r, st)
           [] i = 2 -> downloadWithEmbedURL(r, st)
           [] i = 3 -> downloadWithEmbedURL(r, st)
           [] i = 4 -> downloadAsAudioOnly(r, st)
           [] OTHER -> writeErrorFile(r, st)

background_markerAfterSuccess(r, i, success, st) ==
  IF success
    THEN [writeErrorFile(r, st) EXCEPT !.pc[r] = "succeeded"]
    ELSE CASE i = 1 -> downloadWithEnhancedYtdl(r, st)
           [] i = 2 -> downloadWithProxyFetch(r, st)
           [] i = 3 -> downloadWithEmbedURL(r, st)
           [] i = 4 -> downloadAsAudioOnly(r, st)
           [] OTHER -> writeErrorFile(r, st)

\* Lines 684-756: the chain from the point where method i has settled with
\* `success` (method 1 skipped by the gate counts as settled with FALSE).
background(r, i, success, st) ==
  IF success
    THEN [st EXCEPT !.pc[r] = "succeeded"]
    ELSE CASE i = 1 -> downloadWithEnhancedYtdl(r, st)
           [] i = 2 -> downloadWithProxyFetch(r, st)
           [] i = 3 -> downloadWithEmbedURL(r, st)
           [] i = 4 -> downloadAsAudioOnly(r, st)
           [] OTHER -> writeErrorFile(r, st)

\* A strategy's promise resolves with `ok`; `file` is its target file then.
\* The awaiting chain continues in the same turn.
resolve(r, i, ok, file, st) ==
  background(r, i, ok,
             [st EXCEPT !.res[r][i] = IF ok THEN "true" ELSE "false",
                        !.okFile[r] = IF ok THEN FileStatus(file) ELSE @,
                        !.tgt[r] = "none", !.off[r] = 0])

\* Mutant of downloadWithYtDlpCookies: the existsSync test of line 167 is missing.
downloadWithYtDlpCookies_noCookieTest(r, st) ==
  [Call(r, 1, st) EXCEPT !.pc[r] = "s1"]

\* Method 1, lines 162-184: resolves false at once without the cookies file,
\* else spawns yt-dlp.
downloadWithYtDlpCookies(r, st) ==
  LET s1 == Call(r, 1, st)
  IN IF ~cookies
       THEN resolve(r, 1, FALSE, s1.fs["mp4"], s1)
       ELSE [s1 EXCEPT !.pc[r] = "s1"]

\* Lines 671-683: the gate on the handler's two locals.
backgroundStart(r, hc, hy, st) ==
  IF hc /\ hy
    THEN downloadWithYtDlpCookies(r, st)
    ELSE background(r, 1, FALSE, [Log(r, Ev("skip", 1), st) EXCEPT !.res[r][1] = "skipped"])

\* ---------------------------------------------------------------- file names
\* A name is a sequence of characters.
az == <<"a", "b", "c", "d", "e", "f", "g", "h", "i", "j", "k", "l", "m",
       "n", "o", "p", "q", "r", "s", "t", "u", "v", "w", "x", "y", "z">>
AZ == <<"A", "B", "C", "D", "E", "F", "G", "H", "I", "J", "K", "L", "M",
       "N", "O", "P", "Q", "R", "S", "T", "U", "V", "W", "X", "Y", "Z">>
Lower == {az[k] : k \in 1..Len(az)}
Upper == {AZ[k] : k \in 1..Len(AZ)}
Digit == {"0", "1", "2", "3", "4", "5", "6", "7", "8", "9"}

IdLen == 11   \* the {11} of the two identifier patterns

startsWith(s, p) == Len(s) >= Len(p) /\ SubSeq(s, 1, Len(p)) = p
endsWith(s, p) == Len(s) >= Len(p) /\ SubSeq(s, Len(s) - Len(p) + 1, Len(s)) = p

\* Lines 614-616: title.replace(/[^\w\s]/gi, '').replace(/\s+/g, '_').
\* \w is [A-Za-z0-9_]; of the characters \s matches, the titles of the model
\* hold the space and the tab.
isWord(c) == c \in Lower \cup Upper \cup Digit \cup {"_"}
isSpace(c) == c \in {" ", "\t"}

\* .replace(/[^\w\s]/gi, ''): every character that is neither is dropped.
stripOthers(s) == SelectSeq(s, LAMBDA c : isWord(c) \/ isSpace(c))

\* .replace(/\s+/g, '_'): every maximal run of whitespace becomes one "_".
RECURSIVE collapseSpaces(_)
collapseSpaces(s) ==
  IF s = <<>> THEN <<>>
  ELSE IF ~isSpace(Head(s)) THEN <<Head(s)>> \o collapseSpaces(Tail(s))
  ELSE IF Len(s) > 1 /\ isSpace(s[2]) THEN collapseSpaces(Tail(s))
  ELSE <<"_">> \o collapseSpaces(Tail(s))

\* A sanitisation that takes "_" for a character to drop.
sanitizeTitle_dropsUnderscore(t) ==
  collapseSpaces(SelectSeq(stripOthers(t), LAMBDA c : c # "_"))

sanitizeTitle(t) == collapseSpaces(stripOthers(t))

\* The video all requests are for, and its sanitised title.
videoId == <<"d", "Q", "w", "4", "w", "9", "W", "g", "X", "c", "Q">>
safeTitle == sanitizeTitle(<<"M", "y", " ", "V", "i", "d", "e", "o", "!">>)
mp4Ext == <<".", "m", "p", "4">>
mp3Ext == <<".", "m", "p", "3">>
txtExt == <<".", "t", "x", "t">>
ERROR == <<"E", "R", "R", "O", "R", "-">>
NOTE == <<"N", "O", "T", "E", "-">>

\* Line 619: filename, and line 620: outputPath, as a name in DOWNLOAD_DIR.
filename == safeTitle \o <<"-">> \o videoId \o mp4Ext

\* outputPath.replace('.mp4', '.mp3'), path.basename(outputPath, '.mp4'):
\* the stem of a name that ends in .mp4 (safeTitle and videoId hold no dot).
stem(name) == SubSeq(name, 1, Len(name) - Len(mp4Ext))

\* The name in DOWNLOAD_DIR of each file of the model.
FileName ==
  [f \in Files |->
     CASE f = "mp4" -> filename
       [] f = "temp" -> filename \o <<".", "t", "e", "m", "p">>
       [] f = "part" -> filename \o <<".", "p", "a", "r", "t">>
       [] f = "mp3" -> stem(filename) \o mp3Ext
       [] f = "note" -> NOTE \o stem(filename) \o txtExt
       [] OTHER -> ERROR \o stem(filename) \o txtExt]

\* ---------------------------------------------------------------- extractVideoId
\* Lines 120-124, with the pattern of line 121
\*   /(?:youtube\.com\/(?:[^\/]+\/.+\/|(?:v|e(?:mbed)?)\/|.*[?&]v=)|youtu\.be\/)([^"&?\/\s]{11})/i
\* A url is a sequence of characters without line breaks; null is <<>>.
toLowerCase(c) ==
  IF \E k \in 1..Len(AZ) : AZ[k] = c THEN az[CHOOSE k \in 1..Len(AZ) : AZ[k] = c] ELSE c

\* The literal lit at position `at` of s, letters in either case (flag i).
matchesAt(s, at, lit) ==
  /\ at + Len(lit) - 1 <= Len(s)
  /\ \A k \in 1..Len(lit) : toLowerCase(s[at + k - 1]) = lit[k]

\* ([^"&?\/\s]{11}) at position p; nothing is asked of what follows it.
idAt(s, p) ==
  /\ p + IdLen - 1 <= Len(s)
  /\ \A k \in p..(p + IdLen - 1) : s[k] \notin {"\"", "&", "?", "/", " "}

youtubeCom == <<"y", "o", "u", "t", "u", "b", "e", ".", "c", "o", "m", "/">>
youtuBe == <<"y", "o", "u", "t", "u", ".", "b", "e", "/">>

\* The ways the part before the capture group can match: the position `at`
\* where the match starts, the alternative taken (1: [^\/]+\/.+\/,
\* 2: (?:v|e(?:mbed)?)\/, 3: .*[?&]v=, 4: youtu\.be\/) and the position p
\* where it ends and the group starts.
prefixMatches(s) ==
  LET afterHost(at) == at + Len(youtubeCom)
      slashes(at) == {k \in afterHost(at)..Len(s) : s[k] = "/"}
      firstSlash(at) == CHOOSE k \in slashes(at) : \A l \in slashes(at) : k <= l
      alt1(at) == IF matchesAt(s, at, youtubeCom) /\ slashes(at) # {}
                     /\ firstSlash(at) > afterHost(at)
                    THEN {[at |-> at, alt |-> 1, p |-> k + 1] :
                            k \in {l \in slashes(at) : l >= firstSlash(at) + 2}}
                    ELSE {}
      alt2(at) == {[at |-> at, alt |-> 2, p |-> afterHost(at) + Len(w)] :
                     w \in {x \in {<<"v", "/">>, <<"e", "/">>, <<"e", "m", "b", "e", "d", "/">>} :
                              /\ matchesAt(s, at, youtubeCom)
                              /\ matchesAt(s, afterHost(at), x)}}
      alt3(at) == IF matchesAt(s, at, youtubeCom)
                    THEN {[at |-> at, alt |-> 3, p |-> k + 3] :
                            k \in {l \in afterHost(at)..Len(s) :
                                     s[l] \in {"?", "&"} /\ matchesAt(s, l + 1, <<"v", "=">>)}}
                    ELSE {}
      alt4(at) == IF matchesAt(s, at, youtuBe)
                    THEN {[at |-> at, alt |-> 4, p |-> at + Len(youtuBe)]}
                    ELSE {}
  IN UNION {alt1(at) \cup alt2(at) \cup alt3(at) \cup alt4(at) : at \in 1..Len(s)}

\* The order in which the engine finds matches: leftmost start first, then
\* the alternatives in the order written, then the longest .+ or .* first.
foundBefore(c, d) ==
  \/ c.at < d.at
  \/ c.at = d.at /\ c.alt < d.alt
  \/ c.at = d.at /\ c.alt = d.alt /\ c.p > d.p

extractVideoId(url) ==
  LET matches == {c \in prefixMatches(url) : idAt(url, c.p)}
      match == CHOOSE c \in matches : \A d \in matches \ {c} : foundBefore(c, d)
  IN IF matches = {} THEN <<>> ELSE SubSeq(url, match.p, match.p + IdLen - 1)

\* req.body.url of the three kinds of Urls ("missing" has none).
watchUrl == <<"h", "t", "t", "p", "s", ":", "/", "/", "w", "w", "w", ".", "y", "o", "u", "t", "u", "b", "e", ".", "c", "o", "m", "/", "w", "a", "t", "c", "h", "?", "v", "=">> \o videoId
UrlText(u) == IF u = "watch" THEN watchUrl ELSE <<"n", "o", "t", "-", "a", "-", "u", "r", "l">>

\* ---------------------------------------------------------------- the request handler
respond(r, code, st) == Log(r, Ev("resp", code), st)

\* A response that ends the request without a background chain.
reply(r, code, st) == [respond(r, code, st) EXCEPT !.pc[r] = "responded"]

\* Lines 591-592: extractVideoId(url) is not null.
hasVideoId == [u \in Urls |-> extractVideoId(UrlText(u)) # <<>>]

\* Mutant of validate: the credential is tested before the URL.
validate_keyFirst(r, u, st) ==
  IF ~apiKey THEN reply(r, 500, st)
  ELSE IF u = "missing" THEN reply(r, 400, st)
  ELSE IF ~hasVideoId[u] THEN reply(r, 400, st)
  ELSE [st EXCEPT !.pc[r] = "getVideoDetails"]

\* Lines 583-607: validation up to the await of getVideoDetails.
validate(r, u, st) ==
  IF u = "missing" THEN reply(r, 400, st)
  ELSE IF ~hasVideoId[u] THEN reply(r, 400, st)
  ELSE IF ~apiKey THEN reply(r, 500, st)
  ELSE [st EXCEPT !.pc[r] = "getVideoDetails"]

\* Mutant of existingFileCheck: the existsSync test is missing.
existingFileCheck_noExistsTest(r, found, st) ==
  IF ~found THEN reply(r, 404, st)
  ELSE [st EXCEPT !.pc[r] = "isYtDlpInstalled"]

\* Lines 608-653: after getVideoDetails; `found` is videoDetails !== null.
existingFileCheck(r, found, st) ==
  IF ~found THEN reply(r, 404, st)
  ELSE IF st.fs["mp4"].present THEN reply(r, 200, st)
  ELSE [st EXCEPT !.pc[r] = "isYtDlpInstalled"]

\* Mutant of accept: the chain is started before the response is sent.
accept_chainFirst(r, hc, hy, st) == respond(r, 202, backgroundStart(r, hc, hy, st))

\* Lines 656-672: the 202 response, then the background chain is started.
accept(r, hc, hy, st) == backgroundStart(r, hc, hy, respond(r, 202, st))

\* ---------------------------------------------------------------- actions: the handler
PostDownload(r, u) ==
  /\ alive /\ pc[r] = "idle"
  /\ Commit(validate(r, u, Here))
  /\ UNCHANGED <<apiKey, ytDlp, cookies, hasCookies, hasYtDlp, tested, token, title, applied>>

GetVideoDetailsReturns(r, found) ==
  /\ alive /\ pc[r] = "getVideoDetails"
  /\ Commit(existingFileCheck(r, found, Here))
  /\ hasCookies' = [hasCookies EXCEPT ![r] = IF pc'[r] = "isYtDlpInstalled" THEN cookies ELSE @]
  /\ UNCHANGED <<apiKey, ytDlp, cookies, hasYtDlp, tested, token, title, applied>>

IsYtDlpInstalledReturns(r) ==
  /\ alive /\ pc[r] = "isYtDlpInstalled"
  /\ hasYtDlp' = [hasYtDlp EXCEPT ![r] = ytDlp]
  /\ Commit(accept(r, hasCookies[r], ytDlp, Here))
  /\ UNCHANGED <<apiKey, ytDlp, cookies, hasCookies, tested, token, title, applied>>

\* The cookies file is put in place or taken away by the operator of the server.
CookiesFileChanges ==
  /\ alive
  /\ cookies' = ~cookies
  /\ status' = NoStatus
  /\ UNCHANGED <<alive, apiKey, ytDlp, fs, pc, hasCookies, hasYtDlp, tgt, off, log, res, okFile, stuck, tested, token, title, applied>>

Frame == UNCHANGED <<apiKey, ytDlp, cookies, hasCookies, hasYtDlp, tested, token, title, applied>>

\* ---------------------------------------------------------------- actions: method 1
\* The tool leaves nothing, an empty file or a complete file at outputPath
\* (it writes beside the path and moves its file into place).
replaceFile(path, f, st) ==
  [st EXCEPT !.fs[path] = f,
             !.tgt = [q \in Runs |-> IF st.tgt[q] = path THEN "orphan" ELSE st.tgt[q]]]

ytDlpOutput(r, out, st) ==
  CASE out = "none" -> st
    [] out = "empty" -> [replaceFile("mp4", Empty, st) EXCEPT !.fs["part"] = Absent]
    [] OTHER -> [replaceFile("mp4", File(<<r>>), st) EXCEPT !.fs["part"] = Absent]

\* Before it exits, the yt-dlp process runs beside the server: it creates its
\* working file and takes it away again (a fragment it has merged, a file
\* it renames), any number of times.
YtDlpOps == {"create", "remove"}

ytDlpCan(op, st) == (op = "create") <=> ~st.fs["part"].present

ytDlpWorkingFile(op, st) ==
  [st EXCEPT !.fs["part"] = IF op = "create" THEN Empty ELSE Absent]

YtDlpWorks(r, op) ==
  /\ alive /\ pc[r] = "s1" /\ ytDlpCan(op, Here)
  /\ Commit(ytDlpWorkingFile(op, Here))
  /\ Frame

\* Lines 210-223: ytdlp.on('close').
ytdlpClose(r, code, st) ==
  resolve(r, 1, code = 0 /\ FileStatus(st.fs["mp4"]) = "data", st.fs["mp4"], st)

YtDlpCloses(r, code, out) ==
  /\ alive /\ pc[r] = "s1"
  /\ Commit(ytdlpClose(r, code, ytDlpOutput(r, out, Here)))
  /\ Frame

\* spawn's 'error' event (the tool cannot be started): ytdlp has no 'error'
\* listener, so the emit throws.
YtDlpSpawnError(r) ==
  /\ alive /\ pc[r] = "s1"
  /\ Commit(uncaughtException(r, "subprocess", Here))
  /\ Frame

\* ---------------------------------------------------------------- actions: a chunk arrives
Streaming == {"s2stream", "s3stream", "s4stream", "s5stream"}

Data(r) ==
  /\ alive /\ pc[r] \in Streaming /\ off[r] < MaxChunks
  /\ Commit(write(r, Here))
  /\ Frame

\* ---------------------------------------------------------------- actions: method 2
\* Lines 277-290: ytdl's 'end'.
ytdlEnd2(r, st) ==
  resolve(r, 2, st.fs["mp4"].present, st.fs["mp4"], st)

YtdlEnds2(r) ==
  /\ alive /\ pc[r] = "s2stream"
  /\ Commit(ytdlEnd2(r, Here))
  /\ Frame

\* Lines 291-294: ytdl's 'error'.
YtdlError2(r) ==
  /\ alive /\ pc[r] = "s2stream"
  /\ Commit(resolve(r, 2, FALSE, fs["mp4"], Here))
  /\ Frame

\* Line 235: writeStream has no 'error' listener, so the emit throws.
WriterError2(r) ==
  /\ alive /\ pc[r] = "s2stream"
  /\ Commit(uncaughtException(r, "writer", Here))
  /\ Frame

\* ---------------------------------------------------------------- actions: method 3
\* Lines 313-329 and 407-410: ytdl.getInfo settles.
GetInfoReturns(r, outcome) ==
  /\ alive /\ pc[r] = "s3info"
  /\ Commit(CASE outcome = "ok" -> [Here EXCEPT !.pc[r] = "s3axios"]
              [] outcome = "noformat" -> resolve(r, 3, FALSE, fs["mp4"], Here)
              [] OTHER -> resolve(r, 3, FALSE, fs["mp4"], Here))
  /\ Frame

\* Lines 338-361 and 407-410: the axios GET settles; on a response the temp
\* file is opened.
AxiosReturns(r, ok) ==
  /\ alive /\ pc[r] = "s3axios"
  /\ Commit(IF ok THEN [createWriteStream(r, "temp", Here) EXCEPT !.pc[r] = "s3stream"]
                  ELSE resolve(r, 3, FALSE, fs["mp4"], Here))
  /\ Frame

\* Lines 389-400: writer's 'finish'.
writerFinish3(r, st) ==
  IF ~st.fs["temp"].present
    THEN uncaughtException(r, "rename", st)
    ELSE LET s1 == renameSync("temp", "mp4", st)
         IN resolve(r, 3, TRUE, s1.fs["mp4"], s1)

WriterFinishes3(r) ==
  /\ alive /\ pc[r] = "s3stream"
  /\ Commit(writerFinish3(r, Here))
  /\ Frame

\* response.data fails: it has no 'error' listener and pipe() does not end
\* the writer.  Depending on the axios build the stream either closes
\* silently (the promise never settles) or emits 'error' (the emit throws).
ResponseError3(r, throws) ==
  /\ alive /\ pc[r] = "s3stream"
  /\ Commit(IF throws THEN uncaughtException(r, "response", Here)
                      ELSE neverSettles(r, "response", Here))
  /\ Frame

\* Lines 402-405: writer's 'error'.
WriterError3(r) ==
  /\ alive /\ pc[r] = "s3stream"
  /\ Commit(resolve(r, 3, FALSE, fs["mp4"], Here))
  /\ Frame

\* ---------------------------------------------------------------- actions: method 4
\* Lines 426-440 and 492-495: the GET of the embed page settles; on a
\* response the write stream is opened on outputPath.
EmbedReturns(r, ok) ==
  /\ alive /\ pc[r] = "s4embed"
  /\ Commit(IF ok THEN [createWriteStream(r, "mp4", Here) EXCEPT !.pc[r] = "s4stream"]
                  ELSE resolve(r, 4, FALSE, fs["mp4"], Here))
  /\ Frame

\* Lines 464-470 and 477-486: ytdl's 'end' (a stat of outputPath), then
\* writeStream's 'finish'.
writeStreamFinish4(r, st) ==
  IF ~st.fs["mp4"].present
    THEN uncaughtException(r, "stat", st)
    ELSE resolve(r, 4, FileStatus(st.fs["mp4"]) = "data", st.fs["mp4"], st)

WriteStreamFinishes4(r) ==
  /\ alive /\ pc[r] = "s4stream"
  /\ Commit(writeStreamFinish4(r, Here))
  /\ Frame

\* Lines 471-473: ytdl's 'error' is logged; nothing ends the write stream
\* and nothing resolves the promise.
ytdlError4(r, st) == neverSettles(r, "ytdl", st)

YtdlError4(r) ==
  /\ alive /\ pc[r] = "s4stream"
  /\ Commit(ytdlError4(r, Here))
  /\ Frame

\* Lines 487-490: writeStream's 'error'.
WriterError4(r) ==
  /\ alive /\ pc[r] = "s4stream"
  /\ Commit(resolve(r, 4, FALSE, fs["mp4"], Here))
  /\ Frame

\* ---------------------------------------------------------------- actions: method 5
\* A 'finish' listener that writes the note file before it looks at the size.
writeStreamFinish5_noteBeforeCheck(r, st) ==
  LET s1 == [st EXCEPT !.fs["note"] = File(<<r>>)]
  IN resolve(r, 5, FileStatus(st.fs["mp3"]) = "data", st.fs["mp3"], s1)

\* Lines 541-565: writeStream's 'finish'; the note file is written on success.
writeStreamFinish5(r, st) ==
  IF FileStatus(st.fs["mp3"]) = "data"
    THEN resolve(r, 5, TRUE, st.fs["mp3"], [st EXCEPT !.fs["note"] = File(<<r>>)])
    ELSE resolve(r, 5, FALSE, st.fs["mp3"], st)

WriteStreamFinishes5(r) ==
  /\ alive /\ pc[r] = "s5stream"
  /\ Commit(writeStreamFinish5(r, Here))
  /\ Frame

\* Lines 535-537: ytdl's 'error' is logged; nothing ends the write stream
\* and nothing resolves the promise.
ytdlError5(r, st) == neverSettles(r, "ytdl", st)

YtdlError5(r) ==
  /\ alive /\ pc[r] = "s5stream"
  /\ Commit(ytdlError5(r, Here))
  /\ Frame

\* Lines 566-569: writeStream's 'error'.
WriterError5(r) ==
  /\ alive /\ pc[r] = "s5stream"
  /\ Commit(resolve(r, 5, FALSE, fs["mp3"], Here))
  /\ Frame

\* ---------------------------------------------------------------- GET /api/status
\* Line 781: file.match(/-([a-zA-Z0-9_-]{11})\.(mp4|mp3|txt)$/).  The pattern
\* is anchored at the end and of fixed length, so it can match at one place
\* only.  The result is the captured identifier, <<>> for null.
idMatch(file) ==
  LET n == Len(file)
      from == n - Len(mp4Ext) - IdLen
  IN IF /\ from >= 1
        /\ file[from] = "-"
        /\ \A k \in (from + 1)..(from + IdLen) :
             file[k] \in Lower \cup Upper \cup Digit \cup {"_", "-"}
        /\ \E ext \in {mp4Ext, mp3Ext, txtExt} : endsWith(file, ext)
       THEN SubSeq(file, from + 1, from + IdLen)
       ELSE <<>>

\* Lines 786-796: the entry of one file (the times and the fields derived
\* from the name or the size alone are left out; size is in chunks).
download(file, size) ==
  [filename |-> file,
   size |-> size,
   isError |-> startsWith(file, ERROR),
   isNote |-> startsWith(file, NOTE),
   videoId |-> idMatch(file)]

\* Lines 809-811.
successCount(downloads) ==
  Cardinality({d \in downloads : /\ ~d.isError /\ ~d.isNote
                                 /\ (endsWith(d.filename, mp4Ext) \/ endsWith(d.filename, mp3Ext))})
errorCount(downloads) == Cardinality({d \in downloads : d.isError})
audioOnlyCount(downloads) ==
  Cardinality({d \in downloads : d.isNote \/ endsWith(d.filename, mp3Ext)})

RECURSIVE totalSize(_)
totalSize(downloads) ==
  IF downloads = {} THEN 0
  ELSE LET d == CHOOSE x \in downloads : TRUE
       IN d.size + totalSize(downloads \ {d})

\* Lines 798-824: the body of the response, from the entries and
\* existsSync(COOKIES_FILE).  readdirSync gives each name once, so the list
\* of entries is a set.
statusJson(downloads, cookiesExists) ==
  [code |-> 200,
   downloads |-> downloads,
   totalFiles |-> Cardinality(downloads),
   totalSize |-> totalSize(downloads),
   cookiesStatus |-> cookiesExists,
   stats |-> [successCount |-> successCount(downloads),
              errorCount |-> errorCount(downloads),
              audioOnlyCount |-> audioOnlyCount(downloads)]]

\* Lines 826-829: the catch block.
statusError == [code |-> 500]

\* Lines 770-830 on the directory of the model.  `listed` are the files
\* readdirSync returned (774); statSync of a name that is gone throws (777).
getStatus(listed, st, cookiesExists) ==
  IF \E f \in listed : ~st.fs[f].present
    THEN statusError
    ELSE statusJson({download(FileName[f], Len(st.fs[f].data)) : f \in listed}, cookiesExists)

\* A status handler that takes the error markers it has reported out of the
\* directory.
StatusQuery_clearsMarkers(op) ==
  /\ alive /\ op = "none"
  /\ Assign([Here EXCEPT !.fs["error"] = Absent])
  /\ status' = getStatus({f \in Files : fs[f].present}, Here, cookies)
  /\ Frame

\* GET /api/status.  The handler is synchronous, so no event of the server
\* comes between its readdirSync and its statSync calls; the yt-dlp process
\* of a run in method 1 runs beside the server and can take a step on its
\* working file there (op), or none (op = "none").
StatusQuery(op) ==
  /\ alive
  /\ op # "none" => ((\E q \in Runs : pc[q] = "s1") /\ ytDlpCan(op, Here))
  /\ LET listed == {f \in Files : fs[f].present}
         st == IF op = "none" THEN Here ELSE ytDlpWorkingFile(op, Here)
     IN Assign(st) /\ status' = getStatus(listed, st, cookies)
  /\ Frame

\* ---------------------------------------------------------------- extractVideoId on its own
\* The urls tested: a shape, an identifier segment of 0..MaxSegLen characters
\* of the class [A-Za-z0-9_-], and what follows the segment (nothing, or
\* text that starts with a character that cannot be part of an identifier).
RecognizedShapes == {<<"h", "t", "t", "p", "s", ":", "/", "/", "w", "w", "w", ".", "y", "o", "u", "t", "u", "b", "e", ".", "c", "o", "m", "/", "w", "a", "t", "c", "h", "?", "v", "=">>,
                     <<"h", "t", "t", "p", "s", ":", "/", "/", "y", "o", "u", "t", "u", ".", "b", "e", "/">>,
                     <<"h", "t", "t", "p", "s", ":", "/", "/", "w", "w", "w", ".", "y", "o", "u", "t", "u", "b", "e", ".", "c", "o", "m", "/", "e", "m", "b", "e", "d", "/">>,
                     <<"h", "t", "t", "p", "s", ":", "/", "/", "w", "w", "w", ".", "y", "o", "u", "t", "u", "b", "e", ".", "c", "o", "m", "/", "v", "/">>,
                     <<"h", "t", "t", "p", "s", ":", "/", "/", "w", "w", "w", ".", "y", "o", "u", "t", "u", "b", "e", ".", "c", "o", "m", "/", "e", "/">>,
                     <<"h", "t", "t", "p", "s", ":", "/", "/", "w", "w", "w", ".", "y", "o", "u", "t", "u", "b", "e", ".", "c", "o", "m", "/", "w", "a", "t", "c", "h", "?", "l", "i", "s", "t", "=", "P", "L", "1", "&", "v", "=">>,
                     <<"h", "t", "t", "p", "s", ":", "/", "/", "w", "w", "w", ".", "y", "o", "u", "t", "u", "b", "e", ".", "c", "o", "m", "/", "u", "s", "e", "r", "/", "n", "a", "m", "e", "/">>,
                     <<"H", "T", "T", "P", "S", ":", "/", "/", "Y", "O", "U", "T", "U", ".", "B", "E", "/">>}
UnrelatedShapes == {<<"h", "t", "t", "p", "s", ":", "/", "/", "e", "x", "a", "m", "p", "l", "e", ".", "c", "o", "m", "/", "w", "a", "t", "c", "h", "?", "v", "=">>,
                    <<"h", "t", "t", "p", "s", ":", "/", "/", "v", "i", "m", "e", "o", ".", "c", "o", "m", "/">>}
segmentChars == videoId \o <<"_", "-">>
Segment(n) == [k \in 1..n |-> segmentChars[((k - 1) % Len(segmentChars)) + 1]]
Rests == {<<>>, <<"&", "t", "=", "4", "2", "s">>, <<"/">>, <<"?", "t", "=", "1">>, <<"\"", " ", "x">>}
TestUrls == [shape : RecognizedShapes \cup UnrelatedShapes,
             seg : {Segment(n) : n \in 0..MaxSegLen},
             rest : Rests]

NoTest == [shape |-> <<>>, seg |-> <<>>, rest |-> <<>>]
NoToken == [done |-> FALSE, id |-> <<>>]

ExtractVideoId ==
  /\ ~token.done /\ tested # NoTest
  /\ token' = [done |-> TRUE, id |-> extractVideoId(tested.shape \o tested.seg \o tested.rest)]
  /\ UNCHANGED <<alive, apiKey, ytDlp, cookies, fs, pc, hasCookies, hasYtDlp, tgt, off,
                 log, res, okFile, stuck, status, tested, title, applied>>

\* ---------------------------------------------------------------- the sanitisation on its own
\* The titles tested: every string of up to MaxTitleLen characters over
\* letters, a digit, "_", the two whitespace characters and punctuation.
TitleChars == {"a", "Z", "7", "_", " ", "\t", "-", "!"}
RECURSIVE Titles(_)
Titles(n) ==
  IF n = 0 THEN {<<>>}
  ELSE Titles(n - 1) \cup {Append(t, c) : t \in {u \in Titles(n - 1) : Len(u) = n - 1},
                                         c \in TitleChars}

\* The sanitisation applied to the title, then to its own result.
SanitizeTitle ==
  /\ Len(applied) < MaxApplied
  /\ applied' = Append(applied, sanitizeTitle(IF applied = <<>> THEN title
                                               ELSE applied[Len(applied)]))
  /\ UNCHANGED <<alive, apiKey, ytDlp, cookies, fs, pc, hasCookies, hasYtDlp, tgt, off,
                 log, res, okFile, stuck, status, tested, token, title>>

\* ---------------------------------------------------------------- specification
InitServer ==
  /\ alive = TRUE
  /\ apiKey \in BOOLEAN
  /\ ytDlp \in BOOLEAN
  /\ cookies \in BOOLEAN
  /\ fs = [f \in Files |-> Absent]
  /\ pc = [r \in Runs |-> "idle"]
  /\ hasCookies = [r \in Runs |-> FALSE]
  /\ hasYtDlp = [r \in Runs |-> FALSE]
  /\ tgt = [r \in Runs |-> "none"]
  /\ off = [r \in Runs |-> 0]
  /\ log = [r \in Runs |-> <<>>]
  /\ res = [r \in Runs |-> [i \in Strategies |-> "-"]]
  /\ okFile = [r \in Runs |-> "-"]
  /\ stuck = [r \in Runs |-> "none"]
  /\ status = NoStatus

Init ==
  /\ InitServer /\ tested = NoTest /\ token = NoToken
  /\ title = <<>> /\ applied = <<>>

Next ==
  \/ \E r \in Runs, u \in Urls : PostDownload(r, u)
  \/ \E r \in Runs, found \in BOOLEAN : GetVideoDetailsReturns(r, found)
  \/ \E r \in Runs : IsYtDlpInstalledReturns(r)
  \/ CookiesFileChanges
  \/ \E r \in Runs, code \in {0, 1}, out \in {"none", "empty", "data"} : YtDlpCloses(r, code, out)
  \/ \E r \in Runs : YtDlpSpawnError(r)
  \/ \E r \in Runs : Data(r)
  \/ \E r \in Runs : YtdlEnds2(r)
  \/ \E r \in Runs : YtdlError2(r)
  \/ \E r \in Runs : WriterError2(r)
  \/ \E r \in Runs, outcome \in {"ok", "noformat", "throw"} : GetInfoReturns(r, outcome)
  \/ \E r \in Runs, ok \in BOOLEAN : AxiosReturns(r, ok)
  \/ \E r \in Runs : WriterFinishes3(r)
  \/ \E r \in Runs, throws \in BOOLEAN : ResponseError3(r, throws)
  \/ \E r \in Runs : WriterError3(r)
  \/ \E r \in Runs, ok \in BOOLEAN : EmbedReturns(r, ok)
  \/ \E r \in Runs : WriteStreamFinishes4(r)
  \/ \E r \in Runs : YtdlError4(r)
  \/ \E r \in Runs : WriterError4(r)
  \/ \E r \in Runs : WriteStreamFinishes5(r)
  \/ \E r \in Runs : YtdlError5(r)
  \/ \E r \in Runs : WriterError5(r)

Spec == Init /\ [][Next]_vars

\* The events that the handler and the chain of request r wait for, once the
\* request has been made.
ChainStep(r) ==
  \/ \E found \in BOOLEAN : GetVideoDetailsReturns(r, found)
  \/ IsYtDlpInstalledReturns(r)
  \/ YtDlpSpawnError(r)
  \/ Data(r)
  \/ YtdlEnds2(r) \/ YtdlError2(r) \/ WriterError2(r)
  \/ \E outcome \in {"ok", "noformat", "throw"} : GetInfoReturns(r, outcome)
  \/ \E ok \in BOOLEAN : AxiosReturns(r, ok)
  \/ WriterFinishes3(r) \/ WriterError3(r)
  \/ \E throws \in BOOLEAN : ResponseError3(r, throws)
  \/ \E ok \in BOOLEAN : EmbedReturns(r, ok)
  \/ WriteStreamFinishes4(r) \/ YtdlError4(r) \/ WriterError4(r)
  \/ WriteStreamFinishes5(r) \/ YtdlError5(r) \/ WriterError5(r)

\* Every transport operation eventually completes or reports an error: an
\* awaited call returns or throws, a stream ends or emits 'error', the
\* yt-dlp process exits.  Node then runs the listener that is registered.
Fairness ==
  \A r \in Runs : /\ WF_vars(ChainStep(r))
                   /\ WF_vars(\E code \in {0, 1}, out \in {"none", "empty", "data"} :
                                YtDlpCloses(r, code, out))

FairSpec == Spec /\ Fairness

\* extractVideoId applied to every tested url, the server at rest.
InitExtract ==
  /\ InitServer /\ apiKey /\ ytDlp /\ cookies
  /\ tested \in TestUrls /\ token = NoToken
  /\ title = <<>> /\ applied = <<>>

NextExtract == ExtractVideoId

SpecExtract == InitExtract /\ [][NextExtract]_vars

\* The sanitisation applied to every tested title, the server at rest.
InitSanitize ==
  /\ InitServer /\ apiKey /\ ytDlp /\ cookies
  /\ tested = NoTest /\ token = NoToken
  /\ title \in Titles(MaxTitleLen) /\ applied = <<>>

NextSanitize == SanitizeTitle

SpecSanitize == InitSanitize /\ [][NextSanitize]_vars

\* The server with its status endpoint in use, and the working file of the
\* yt-dlp process that a status query can come across.
NextStatus ==
  \/ Next
  \/ \E r \in Runs, op \in YtDlpOps : YtDlpWorks(r, op)
  \/ \E op \in YtDlpOps \cup {"none"} : StatusQuery(op)

SpecStatus == Init /\ [][NextStatus]_vars

\* ================================================================ claims
InChain(r) == pc[r] \in {"s1", "s2stream", "s3info", "s3axios", "s3stream", "s4embed",
                         "s4stream", "s5stream", "hung"}
Ended(r) == pc[r] \in {"idle", "responded", "succeeded", "allfailed"}

\* C1: in a run, once a strategy has returned success no later strategy of
\* the order 1..5 is invoked, and the run has ended as succeeded.
C1_NoStrategyAfterSuccess ==
  \A r \in Runs : \A i \in Strategies :
    res[r][i] = "true" =>
      /\ \A j \in Strategies : j > i => res[r][j] = "-"
      /\ \A k \in 1..Len(Calls(r)) : Calls(r)[k] <= i
      /\ pc[r] = "succeeded"

C1_Witness == \E r \in Runs : \E i \in 1..4 : res[r][i] = "true" /\ Len(Calls(r)) >= 2

\* C2: strategy i+1 has been invoked exactly when strategy i returned false
\* (or, for i = 1, was skipped by the gate); strategies are invoked in
\* increasing order, hence each at most once.
C2_AdvanceIffFailure ==
  \A r \in Runs :
    /\ LET calls == Calls(r)
       IN /\ \A k \in 1..(Len(calls) - 1) : calls[k] < calls[k + 1]
          /\ \A i \in Strategies :
               (res[r][i] \in {"pending", "true", "false"}) <=> (\E k \in 1..Len(calls) : calls[k] = i)
    /\ \A i \in 1..4 :
         (res[r][i + 1] # "-") <=> (res[r][i] = "false" \/ (i = 1 /\ res[r][1] = "skipped"))

C2_Witness ==
  \E r \in Runs : res[r][1] = "false" /\ res[r][3] = "false" /\ res[r][4] = "pending"

C4_SuccessOnlyWithNonEmptyFile ==
  \A r \in Runs : (\E i \in Strategies : res[r][i] = "true") => okFile[r] = "data"

\* C5: when the transport of a strategy reports an error (subprocess, ytdl
\* stream, HTTP response stream, file writer), the strategy's promise
\* resolves (with false): no strategy is left pending after such an error.
TransportErrors == {"subprocess", "ytdl", "response", "writer"}

C5_TransportErrorGivesFalse ==
  \A r \in Runs : stuck[r] \in TransportErrors => \A i \in Strategies : res[r][i] # "pending"

\* C6: a failing rename or stat in a strategy's completion handling is
\* turned into a boolean: the process lives on and the strategy's promise
\* is not left pending.
CompletionFaults == {"rename", "stat"}

C6_NoFaultEscapes ==
  \A r \in Runs :
    stuck[r] \in CompletionFaults => (alive /\ \A i \in Strategies : res[r][i] # "pending")

\* C7: when no run is in flight, the directory does not hold both the media
\* file and the error marker.
C7_NotBothMediaAndErrorMarker ==
  (\A r \in Runs : Ended(r)) => ~(fs["mp4"].present /\ fs["error"].present)

\* C8: the note marker is present only together with a non-empty audio file
\* and never together with a full video file (the non-empty output of a
\* strategy 1..4 that returned success).
FullVideo == FileStatus(fs["mp4"]) = "data" /\ \E r \in Runs : \E i \in 1..4 : res[r][i] = "true"

C8_NoteOnlyWithAudio ==
  fs["note"].present => (FileStatus(fs["mp3"]) = "data" /\ ~FullVideo)

\* C9: the 202 response precedes everything the chain does: it is the first
\* entry of a request's log whenever a strategy was invoked or skipped or
\* the marker written, and it has been sent at every moment the chain is
\* running or holds an open write stream.
C9_ResponseBeforeChain ==
  \A r \in Runs :
    /\ (\E k \in 1..Len(log[r]) : log[r][k].e \in {"inv", "skip", "marker"})
         => log[r][1] = Ev("resp", 202)
    /\ (InChain(r) \/ tgt[r] # "none") => Responded(r, 202)
    /\ Count(r, "resp") <= 1

C9_Witness == \E r \in Runs : Responded(r, 202) /\ pc[r] = "s2stream" /\ off[r] = 0

\* C10: a request handled while the output path exists (and whose metadata
\* lookup succeeded) is answered 200 and ends there: the step changes no
\* file, and a request answered 200 never invokes a strategy.
C10_Step(r) ==
  (pc[r] = "getVideoDetails" /\ pc'[r] # "getVideoDetails" /\ fs["mp4"].present) =>
     /\ pc'[r] = "responded"
     /\ log'[r] \in {Append(log[r], Ev("resp", 200)), Append(log[r], Ev("resp", 404))}
     /\ fs' = fs

C10_ExistingFileShortCircuit ==
  /\ [](\A r \in Runs : Responded(r, 200) =>
          /\ pc[r] = "responded"
          /\ log[r] = <<Ev("resp", 200)>>
          /\ \A i \in Strategies : res[r][i] = "-")
  /\ [][\A r \in Runs : C10_Step(r)]_vars

C10_Witness == \E r \in Runs : Responded(r, 200)

\* C11: the handler answers 400 for a missing or unparseable URL, else 500
\* without the credential, else 404 for an empty metadata lookup; none of
\* these steps writes a file or starts a chain, and a chain has been started
\* exactly for the requests answered 202.
ChainStarted(r) == \E k \in 1..Len(log[r]) : log[r][k].e \in {"inv", "skip"}

C11_Validate(r, u) ==
  PostDownload(r, u) =>
    /\ fs' = fs
    /\ u \in {"missing", "not-a-url"} => (log'[r] = <<Ev("resp", 400)>> /\ pc'[r] = "responded")
    /\ (u = "watch" /\ ~apiKey) => (log'[r] = <<Ev("resp", 500)>> /\ pc'[r] = "responded")
    /\ (u = "watch" /\ apiKey) => (log'[r] = <<>> /\ pc'[r] = "getVideoDetails")

C11_Lookup(r) ==
  GetVideoDetailsReturns(r, FALSE) =>
    (fs' = fs /\ log'[r] = <<Ev("resp", 404)>> /\ pc'[r] = "responded")

C12_ChainStart(r) ==
  (pc[r] = "isYtDlpInstalled" /\ pc'[r] # pc[r]) =>
    /\ (pc'[r] = "s1") <=> (hasCookies[r] /\ ytDlp /\ cookies)
    /\ (res'[r][1] = "skipped") <=> ~(hasCookies[r] /\ ytDlp)
    /\ pc'[r] # "s1" => (pc'[r] = "s2stream" /\ res'[r][2] = "pending"
                          /\ res'[r][1] \in {"skipped", "false"})
    /\ ~cookies => pc'[r] # "s1"

C12_SpawnOnlyBehindGate ==
  /\ [](\A r \in Runs : pc[r] = "s1" => (hasCookies[r] /\ hasYtDlp[r]))
  /\ [][\A r \in Runs : C12_ChainStart(r)]_vars

\* the cookies file was there at the gate and is gone at the call of method 1
C12_Witness ==
  \E r \in Runs : hasCookies[r] /\ hasYtDlp[r] /\ res[r][1] = "false" /\ pc[r] = "s2stream"
                  /\ Calls(r) = <<1, 2>> /\ off[r] = 0 /\ ~cookies

\* C13: two chains on the same output path do not disturb each other: they
\* never hold write streams on the same temp file, no rename fails, and once
\* all runs have ended with a strategy 1..4 having verified a non-empty
\* file, outputPath holds the unmixed, non-empty output of a run whose
\* strategy 1..4 succeeded.
UnmixedOutputOf(q) ==
  /\ Len(fs["mp4"].data) > 0
  /\ \A k \in 1..Len(fs["mp4"].data) : fs["mp4"].data[k] = q

VideoSuccess(r) == \E i \in 1..4 : res[r][i] = "true"

C13_ConcurrentRunsDoNotCorrupt ==
  /\ \A r \in Runs : \A q \in Runs : (r # q /\ tgt[r] = "temp") => tgt[q] # "temp"
  /\ \A r \in Runs : stuck[r] # "rename"
  /\ ((\A r \in Runs : Ended(r)) /\ (\E r \in Runs : VideoSuccess(r) /\ okFile[r] = "data"))
       => \E q \in Runs : VideoSuccess(q) /\ UnmixedOutputOf(q)


\* C14: a status query answered while a download is in flight never fails
\* with an error response: every response is a listing (code 200).
C14_StatusNeverFails == status.code # 500

\* what C14 rules out: a run is in method 1 and the query is answered 500
C14_FailsDuringMethod1 == status.code = 500 /\ \E r \in Runs : pc[r] = "s1"

\* The entries of a listing whose name has the given prefix.
Prefixed(resp, prefix) == {d \in resp.downloads : startsWith(d.filename, prefix)}

\* C15: in every listing, successCount is the number of entries without
\* ERROR-/NOTE- prefix that end in .mp4 or .mp3, errorCount is the number of
\* ERROR- entries and audioOnlyCount is the number of NOTE- entries.
C15_CountsByConvention ==
  status.code = 200 =>
    /\ status.stats.successCount =
         Cardinality({d \in status.downloads \ (Prefixed(status, ERROR) \cup Prefixed(status, NOTE)) :
                        endsWith(d.filename, mp4Ext) \/ endsWith(d.filename, mp3Ext)})
    /\ status.stats.errorCount = Cardinality(Prefixed(status, ERROR))
    /\ status.stats.audioOnlyCount = Cardinality(Prefixed(status, NOTE))

\* the two counts of C15 that the listing does report by the convention
C15_SuccessAndErrorCounts ==
  status.code = 200 =>
    /\ status.stats.successCount =
         Cardinality({d \in status.downloads \ (Prefixed(status, ERROR) \cup Prefixed(status, NOTE)) :
                        endsWith(d.filename, mp4Ext) \/ endsWith(d.filename, mp3Ext)})
    /\ status.stats.errorCount = Cardinality(Prefixed(status, ERROR))

\* The listing in `status` names exactly the files that are in the directory.
ListsDirectory ==
  /\ status.code = 200
  /\ {d.filename : d \in status.downloads} = {FileName[f] : f \in {g \in Files : fs[g].present}}

\* C16: a status query changes no file of the download directory, not the
\* cookie file and nothing of the server's state; and a query that follows a
\* query with nothing in between sends the same response again.
C16_Step ==
  StatusQuery("none") =>
    /\ fs' = fs /\ cookies' = cookies
    /\ UNCHANGED <<alive, apiKey, ytDlp, pc, hasCookies, hasYtDlp, tgt, off, log, res, okFile, stuck>>
    /\ ListsDirectory => status' = status

C16_StatusIsReadOnly == [][C16_Step]_vars

\* a listing of two or more files sent while a run is in a strategy
C16_Witness ==
  /\ ListsDirectory /\ status.totalFiles >= 2
  /\ \E r \in Runs : InChain(r)

\* The listing in `status` shows the error marker of the video.
ReportsErrorMarker ==
  /\ \E d \in status.downloads : d.isError /\ d.videoId = videoId
  /\ status.stats.errorCount >= 1

\* C17: once a run has ended with all strategies failed, every status query
\* answered afterwards lists an entry with isError and the video's
\* identifier and counts at least one error; the run's request was answered
\* 202 and nothing else.
C17_AllFailedIsReported ==
  \A r \in Runs :
    (pc[r] = "allfailed" /\ status # NoStatus) =>
      /\ status.code = 200 /\ ReportsErrorMarker
      /\ SelectSeq(log[r], LAMBDA x : x.e = "resp") = <<Ev("resp", 202)>>

\* what does hold for C17: every listing sent after such a run shows the marker
C17_ReportedInEveryListing ==
  \A r \in Runs :
    (pc[r] = "allfailed" /\ status.code = 200) =>
      /\ ReportsErrorMarker
      /\ SelectSeq(log[r], LAMBDA x : x.e = "resp") = <<Ev("resp", 202)>>

Terminal(r) == pc[r] \in {"succeeded", "allfailed"}

\* C18: when every transport operation eventually completes or reports an
\* error, every run started by a 202 response eventually is succeeded or
\* all-failed, with an artifact or the error marker on disk.
C18_EveryRunTerminates ==
  \A r \in Runs :
    Responded(r, 202) ~>
      (Terminal(r) /\ \E f \in {"mp4", "mp3", "error"} : fs[f].present)

\* A name of one of the persisted shapes: <title>-<id>.mp4 or .mp3,
\* ERROR-<title>-<id>.txt, NOTE-<title>-<id>.txt.
PersistedShape(name) ==
  /\ idMatch(name) # <<>>
  /\ endsWith(name, txtExt) <=> (startsWith(name, ERROR) \/ startsWith(name, NOTE))

\* C19: when no run is in flight, every file in the download directory has
\* a persisted shape; no temporary file of method 3 is left.
C19_OnlyPersistedShapesAtRest ==
  (\A r \in Runs : Ended(r)) =>
    \A f \in Files : fs[f].present => PersistedShape(FileName[f])

\* the part of C19 about method 3 alone: its temp file is gone once the run
\* that called it has ended
C19_NoTempFileAtRest ==
  ((\A r \in Runs : Ended(r)) /\ (\E r \in Runs : res[r][3] \in {"true", "false"}))
    => ~fs["temp"].present

\* C20: extractVideoId returns a token only for a recognized shape whose
\* identifier segment has exactly 11 characters, and then that segment; for
\* a shorter or a longer segment, and for an unrelated url, it returns null.
C20_NoPartialMatch ==
  token.done =>
    token.id = IF tested.shape \in RecognizedShapes /\ Len(tested.seg) = IdLen
                 THEN tested.seg ELSE <<>>

\* what does hold for C20: null or 11 characters, null for unrelated urls
\* and short segments, the segment itself when it has 11 characters
C20_ExactShortAndUnrelated ==
  token.done =>
    /\ Len(token.id) \in {0, IdLen}
    /\ (tested.shape \in UnrelatedShapes \/ Len(tested.seg) < IdLen) => token.id = <<>>
    /\ (tested.shape \in RecognizedShapes /\ Len(tested.seg) = IdLen) => token.id = tested.seg

\* C21: the sanitisation applied to its own output returns that output
\* unchanged, for every title; the output holds word characters only.
C21_SanitizeIdempotent ==
  /\ \A k \in 2..Len(applied) : applied[k] = applied[1]
  /\ \A k \in 1..Len(applied) : \A n \in 1..Len(applied[k]) : isWord(applied[k][n])

\* a title with punctuation and a run of whitespace, sanitised twice
C21_Witness ==
  /\ Len(applied) = MaxApplied
  /\ \E n \in 1..Len(title) : ~isWord(title[n]) /\ ~isSpace(title[n])
  /\ \E n \in 2..Len(title) : isSpace(title[n - 1]) /\ isSpace(title[n])
  /\ applied[1] # title /\ applied[1] # <<>>

InMethod3(r) == pc[r] \in {"s3info", "s3axios", "s3stream"}

\* A turn of run r inside method 3 that does not end it with success.
Method3StepWithoutSuccess(r) == InMethod3(r) /\ ChainStep(r) /\ res'[r][3] # "true"

\* C22: method 3 writes only to <output>.temp and moves it onto outputPath
\* only on success: no turn of a run inside method 3, other than the one
\* that returns success, changes what is at outputPath.
C22_Method3LeavesOutputAlone ==
  [][\A r \in Runs : Method3StepWithoutSuccess(r) => fs'["mp4"] = fs["mp4"]]_vars

\* what does hold for C22: the same, for a run whose temp file no other run
\* has opened or moved
C22_AloneLeavesOutputAlone ==
  [][\A r \in Runs :
       (Method3StepWithoutSuccess(r) /\ \A q \in Runs \ {r} : res[q][3] = "-")
         => fs'["mp4"] = fs["mp4"]]_vars

\* A turn in which method 5 of run r runs: the call (lines 505-538, made by
\* the chain when method 4 has returned false) or one of its listeners.
Method5Step(r) ==
  \/ res[r][5] = "-" /\ res'[r][5] # "-"
  \/ pc[r] = "s5stream" /\ ChainStep(r)

\* C23: method 5 changes no file but the audio file and the note file, in
\* particular not outputPath; it writes the note file in the turn in which
\* it returns success and in no other, when the audio file is not empty.
C23_Method5Step(r) ==
  Method5Step(r) =>
    /\ \A f \in {"mp4", "temp", "part"} : fs'[f] = fs[f]
    /\ res'[r][5] = "true" => (fs'["note"] = File(<<r>>) /\ FileStatus(fs'["mp3"]) = "data")
    /\ res'[r][5] # "true" => fs'["note"] = fs["note"]

C23_Method5WritesAudioAndNoteOnly == [][\A r \in Runs : C23_Method5Step(r)]_vars

\* method 5 has returned success, its note is written, and the file a failed
\* method left at outputPath is still there
C23_Witness ==
  \E r \in Runs : /\ res[r][5] = "true" /\ fs["note"] = File(<<r>>)
                  /\ FileStatus(fs["mp3"]) = "data" /\ fs["mp4"].present

\* C24: a request is answered 200 only when a run has succeeded with a
\* strategy 1..4, a non-empty file is at outputPath and no run has a write
\* stream open on it.
C24_Step(r) ==
  log'[r] = Append(log[r], Ev("resp", 200)) =>
    /\ FileStatus(fs["mp4"]) = "data"
    /\ \E q \in Runs : pc[q] = "succeeded" /\ \E i \in 1..4 : res[q][i] = "true"
    /\ \A q \in Runs : tgt[q] # "mp4"

C24_AlreadyDownloadedOnlyAfterSuccess == [][\A r \in Runs : C24_Step(r)]_vars

Awaiting(r) == pc[r] \in {"getVideoDetails", "isYtDlpInstalled"}

\* C25: every request gets exactly one response: never two, one as soon as
\* its handler is through, and a request whose handler still awaits a
\* lookup is in a server that can still answer it.
C25_ExactlyOneResponse ==
  \A r \in Runs :
    /\ Count(r, "resp") <= 1
    /\ (pc[r] # "idle" /\ ~Awaiting(r)) => Count(r, "resp") = 1
    /\ Awaiting(r) => alive

\* what does hold for C25: never two responses, one for every request whose
\* handler is through, whatever the chain does afterwards
C25_OneResponseWhenHandled ==
  \A r \in Runs :
    /\ Count(r, "resp") <= 1
    /\ (pc[r] # "idle" /\ ~Awaiting(r)) => Count(r, "resp") = 1

====
